---- MODULE Spec2Model ----
(***************************************************************************)
(* Model of the LoCoRe review store: the mutable index (index.json), the   *)
(* append-only comment log (review.jsonl), the session cache threadIdMap   *)
(* and the two writers upsertReview and setThreadState.                    *)
(*                                                                         *)
(* Every handler is cut at its awaits: the synchronous code between two    *)
(* awaits is one action.  Spec lets the I/O waits of up to MaxCalls calls  *)
(* interleave; SpecSeq starts a call only when no other call is in flight. *)
(* A call in flight is the record of its local variables; calls is the bag *)
(* of these records, since nothing in the code tells two calls apart but   *)
(* their locals.                                                           *)
(***************************************************************************)
EXTENDS Integers, Sequences, FiniteSets, Bags, TLC

VARIABLES indexFile, logFile, threadIdMap, liveThreads, uuidCount, calls, opCount,
          restored, lastResult

vars == <<indexFile, logFile, threadIdMap, liveThreads, uuidCount, calls, opCount, restored,
          lastResult>>

(* ---------------------------- bounds ----------------------------------- *)

\* live thread objects the editor hands out in one session
MaxThreads == 3
\* calls (upsertReview or setThreadState) started in one run
MaxOps == 3
\* calls whose I/O waits may overlap
MaxCalls == 2
Handles == 1..MaxThreads
\* files of the workspace that carry threads
Files == {"a.ts", "b.ts"}

(* ------------------------- values of the code -------------------------- *)

\* a lookup that finds nothing (WeakMap.get, an optional field, a missing key)
undefined == 0

Range(sl, sc, el, ec) ==
    [start |-> [line |-> sl, character |-> sc], end |-> [line |-> el, character |-> ec]]

\* ranges the editor places threads at
Ranges == { Range(0, 0, 1, 1), Range(0, 1, 1, 1) }

Texts == {"a"}
States == {"open", "closed"}

\* thread.uri.toString(): the absolute URI string of the thread's file
uriToString(uri) == <<"abs", uri>>

\* keyFromThread(thread, workspaceRoot): the workspace-relative location key
keyFromThread(thread) == <<"rel", thread.uri>>

\* generateUuid(): a value no earlier call has returned
generateUuid(n) == n + 1

DefaultIndex == [version |-> 1, lastSeq |-> 0, threads |-> <<>>, byUri |-> <<>>]

\* fs.promises.readFile rejects: the file does not exist
MissingFile == [missing |-> TRUE]

\* JSON.parse throws: the content is a record [text |-> ..], not JSON
ParseThrows(content) == "text" \in DOMAIN content

\* !parsed || typeof parsed !== 'object': null and the other primitives are
\* records [json |-> ..]; objects and arrays are the remaining records
NotAnObject(parsed) == "json" \in DOMAIN parsed

\* the properties of IndexThreadEntry that an entry may lack
OptionalFields == {"firstSeq", "lastSeq"}

\* reading a property that an object lacks gives undefined
ReadEntry(t) ==
    IF OptionalFields \subseteq DOMAIN t THEN t
    ELSE t @@ [f \in OptionalFields |-> undefined]

\* JSON.parse of the text of a document: an entry has the properties the
\* text holds
JSONparse(text) ==
    IF "threads" \in DOMAIN text
    THEN [text EXCEPT !.threads = [id \in DOMAIN @ |-> ReadEntry(@[id])]]
    ELSE text

\* a property is written when the object has it: upsertReview and
\* setThreadState create entries without firstSeq and lastSeq
WriteEntry(t) ==
    [f \in { g \in DOMAIN t : g \notin OptionalFields \/ t[g] # undefined } |-> t[f]]

\* JSON.stringify(data, null, 2) + '\n'
JSONstringify(data) == [data EXCEPT !.threads = [id \in DOMAIN @ |-> WriteEntry(@[id])]]

\* lines 50-64: the default document when the file is missing, is not JSON, is
\* no object or has no version key; the parsed document otherwise
readIndexJson(file) ==
    IF file = MissingFile \/ ParseThrows(file) \/ NotAnObject(file) THEN DefaultIndex
    ELSE IF "version" \notin DOMAIN file THEN DefaultIndex
    ELSE JSONparse(file)

\* mutant: byUri is not written
writeIndexJson_WithoutByUri(data) == JSONstringify([data EXCEPT !.byUri = <<>>])

\* lines 69-72: the whole document replaces the content of the file
writeIndexJson(data) == JSONstringify(data)

\* lines 128-145: the default document is written when the file is missing, is
\* not JSON, is no object or has no version key
initializeIndexJson(file) ==
    IF file = MissingFile \/ ParseThrows(file) \/ NotAnObject(file) \/ "version" \notin DOMAIN file
    THEN JSONstringify(DefaultIndex)
    ELSE file

\* a review.jsonl that does not exist: no line of a file is this record
MissingLog == <<MissingFile>>

\* mutant: the log is opened for writing, which empties it
initializeJsonlLog_Truncates(file) == <<>>

\* lines 150-154: open(reviewPath, 'a') creates the file when it is missing and
\* leaves an existing one as it is
initializeJsonlLog(file) == IF file = MissingLog THEN <<>> ELSE file

NoThread == [uri |-> "none"]

\* what a handler gives the command that awaits it: the promise resolves or
\* rejects with a cause, and a message may have been shown to the user
NoResult == [settled |-> "none", cause |-> "none", message |-> "none"]
Resolved(message) == [settled |-> "resolved", cause |-> "none", message |-> message]
Rejected(cause) == [settled |-> "rejected", cause |-> cause, message |-> "none"]

NewLiveThread(f, r) ==
    [uri |-> f, range |-> r, comments |-> <<>>, state |-> "unset", contextValue |-> "unset",
     collapsibleState |-> "unset"]

(* ------------------------------ helpers -------------------------------- *)

Min(S) == CHOOSE x \in S : \A y \in S : x <= y

Has(f, k) == k \in DOMAIN f

\* obj[k] = v on a JS object: sets or adds the key
Put(f, k, v) == [x \in (DOMAIN f) \cup {k} |-> IF x = k THEN v ELSE f[x]]

\* delete obj[k]
Del(f, k) == [x \in (DOMAIN f) \ {k} |-> f[x]]

Includes(s, v) == \E i \in 1..Len(s) : s[i] = v

Filter(s, v) == SelectSeq(s, LAMBDA x : x # v)

\* if (!byUri[k]) byUri[k] = []; if (!byUri[k].includes(id)) byUri[k].push(id)
PushUnique(byUri, k, id) ==
    LET cur == IF Has(byUri, k) THEN byUri[k] ELSE <<>>
    IN  Put(byUri, k, IF Includes(cur, id) THEN cur ELSE Append(cur, id))

(* ----------------------- identity resolution --------------------------- *)

\* mutant: the end character is not compared
SameRange_NoEndCharacter(tr, r) ==
    /\ tr.start.line = r.start.line
    /\ tr.start.character = r.start.character
    /\ tr.end.line = r.end.line

\* lines 183-186: all four coordinates are equal
SameRange(tr, r) ==
    /\ tr.start.line = r.start.line
    /\ tr.start.character = r.start.character
    /\ tr.end.line = r.end.line
    /\ tr.end.character = r.end.character

CandidateIds(indexData, thread) ==
    LET absKey == uriToString(thread.uri)
        relKey == keyFromThread(thread)
    IN  IF Has(indexData.byUri, relKey) THEN indexData.byUri[relKey]
        ELSE IF Has(indexData.byUri, absKey) THEN indexData.byUri[absKey]
        ELSE <<>>

\* mutant: the first thread stored for the file, whatever its range
resolveThreadIdFromIndex_AnyRange(indexData, thread) ==
    LET ids == CandidateIds(indexData, thread)
        hits == { i \in 1..Len(ids) : Has(indexData.threads, ids[i]) }
    IN  IF hits = {} THEN undefined ELSE ids[Min(hits)]

resolveThreadIdFromIndex(indexData, thread) ==
    LET ids == CandidateIds(indexData, thread)
        hits == { i \in 1..Len(ids) :
                    /\ Has(indexData.threads, ids[i])
                    /\ SameRange(indexData.threads[ids[i]].range, thread.range) }
    IN  IF hits = {} THEN undefined ELSE ids[Min(hits)]

\* mutant: the session cache is not consulted
ResolveThreadId_IndexOnly(indexData, h) ==
    resolveThreadIdFromIndex(indexData, liveThreads[h])

\* threadIdMap.get(thread) || resolveThreadIdFromIndex(indexData, thread)
ResolveThreadId(indexData, h) ==
    IF threadIdMap[h] # undefined THEN threadIdMap[h]
    ELSE resolveThreadIdFromIndex(indexData, liveThreads[h])

\* mutant: the new entry already counts one comment
NewEntry_CountOne(id, key, r, nowIso) ==
    [threadId |-> id, uri |-> key, range |-> r, state |-> "open",
     createdAt |-> nowIso, updatedAt |-> nowIso,
     commentCount |-> 1, firstSeq |-> undefined, lastSeq |-> undefined]

\* lines 47-59 of upsertReview, lines 130-142 of setThreadState
NewEntry(id, key, r, nowIso) ==
    [threadId |-> id, uri |-> key, range |-> r, state |-> "open",
     createdAt |-> nowIso, updatedAt |-> nowIso,
     commentCount |-> 0, firstSeq |-> undefined, lastSeq |-> undefined]

(* ------------------------------- state --------------------------------- *)

Init ==
    /\ indexFile = DefaultIndex
    /\ logFile = <<>>
    /\ threadIdMap = [h \in Handles |-> undefined]
    /\ liveThreads = [h \in Handles |-> NoThread]
    /\ uuidCount = 0
    /\ calls = EmptyBag
    /\ opCount = 0
    /\ restored = <<>>
    /\ lastResult = NoResult

Live(h) == liveThreads[h] # NoThread

\* the calls in flight, each one the record of its locals
InFlight == BagToSet(calls)

Quiescent == calls = EmptyBag

\* a handler is invoked: its locals join the calls in flight
StartCall(c) == calls (+) SetToBag({c})

\* the handler returns or throws
EndCall(c) == calls (-) SetToBag({c})

\* the call runs on to its next await with locals c1
Advance(c, c1) == (calls (-) SetToBag({c})) (+) SetToBag({c1})

\* a live thread no call was ever started on: not cached, nothing shown, not in use
Fresh(h) ==
    /\ Live(h)
    /\ threadIdMap[h] = undefined
    /\ liveThreads[h] = NewLiveThread(liveThreads[h].uri, liveThreads[h].range)
    /\ \A c \in InFlight : c.h # h

\* the editor creates a new comment thread object at (file, range).  Creating a
\* thread touches no store and no other thread, so it commutes with every step
\* of a call: a thread is created when no other unused thread is waiting.
CreateThread(f, r) ==
    /\ \E h \in Handles : ~Live(h)
    /\ \A h \in Handles : ~Fresh(h)
    /\ opCount < MaxOps
    /\ LET h == Min({ x \in Handles : ~Live(x) })
       IN  liveThreads' = [liveThreads EXCEPT ![h] = NewLiveThread(f, r)]
    /\ UNCHANGED <<indexFile, logFile, threadIdMap, uuidCount, calls, opCount, restored, lastResult>>

\* the text around a thread is edited and the editor moves thread.range with
\* it; upsertReview and setThreadState read thread.range anew in each call
ShiftRange(h, r) ==
    /\ Live(h)
    /\ liveThreads[h].range # r
    /\ liveThreads' = [liveThreads EXCEPT ![h].range = r]
    /\ UNCHANGED <<indexFile, logFile, threadIdMap, uuidCount, calls, opCount, restored, lastResult>>

(* --------------------------- upsertReview ------------------------------ *)

\* new Date(): the clock of the model counts the calls started so far
Clock == opCount

\* mutant: the stores are prepared before the workspace is looked at
NoWorkspaceStores_Prepared ==
    /\ indexFile' = initializeIndexJson(indexFile)
    /\ logFile' = initializeJsonlLog(logFile)

\* lines 21-24: the return at line 23 comes before any path is computed
NoWorkspaceStores == UNCHANGED <<indexFile, logFile>>

\* lines 20-40: a workspace is open; initializeReviewStores makes sure of the
\* stores; thread.range and the time (the call has started: Clock + 1) are
\* captured; the index is read
UpsertBegin(h, text) ==
    /\ Live(h)
    /\ BagCardinality(calls) < MaxCalls
    /\ opCount < MaxOps
    /\ opCount' = opCount + 1
    /\ indexFile' = initializeIndexJson(indexFile)
    /\ logFile' = initializeJsonlLog(logFile)
    /\ calls' = StartCall([pc |-> "resolve", op |-> "upsert", h |-> h, text |-> text,
                            range |-> liveThreads[h].range, nowIso |-> Clock + 1,
                            indexData |-> readIndexJson(indexFile'),
                            threadId |-> undefined, isNewThread |-> FALSE, nextSeq |-> 0,
                            readFailed |-> FALSE])
    /\ UNCHANGED <<threadIdMap, liveThreads, uuidCount, restored>>
    /\ lastResult' = NoResult

\* lines 21-24: no workspace folder is open; an error message is shown and the
\* call returns before initializeReviewStores
UpsertNoWorkspace(h, text) ==
    /\ Live(h)
    /\ opCount < MaxOps
    /\ opCount' = opCount + 1
    /\ lastResult' = Resolved("error")
    /\ NoWorkspaceStores
    /\ UNCHANGED <<threadIdMap, liveThreads, uuidCount, calls, restored>>

\* lines 32-40 when fs.promises.readFile fails in readIndexJson: the catch of
\* readIndexJson (part_006:61-63) returns the default document, as for a
\* missing file, and the call goes on with it
UpsertBeginReadFails(h, text) ==
    /\ Live(h)
    /\ BagCardinality(calls) < MaxCalls
    /\ opCount < MaxOps
    /\ opCount' = opCount + 1
    /\ indexFile' = initializeIndexJson(indexFile)
    /\ logFile' = initializeJsonlLog(logFile)
    /\ calls' = StartCall([pc |-> "resolve", op |-> "upsert", h |-> h, text |-> text,
                            range |-> liveThreads[h].range, nowIso |-> Clock + 1,
                            indexData |-> readIndexJson(MissingFile),
                            threadId |-> undefined, isNewThread |-> FALSE, nextSeq |-> 0,
                            readFailed |-> TRUE])
    /\ UNCHANGED <<threadIdMap, liveThreads, uuidCount, restored>>
    /\ lastResult' = NoResult

\* lines 32-40 when fs.promises.readFile fails in initializeIndexJson: its catch
\* (part_006:142-144) writes the default document over the index, which line
\* 40 then reads
UpsertBeginInitFails(h, text) ==
    /\ Live(h)
    /\ BagCardinality(calls) < MaxCalls
    /\ opCount < MaxOps
    /\ opCount' = opCount + 1
    /\ indexFile' = initializeIndexJson(MissingFile)
    /\ logFile' = initializeJsonlLog(logFile)
    /\ calls' = StartCall([pc |-> "resolve", op |-> "upsert", h |-> h, text |-> text,
                            range |-> liveThreads[h].range, nowIso |-> Clock + 1,
                            indexData |-> readIndexJson(indexFile'),
                            threadId |-> undefined, isNewThread |-> FALSE, nextSeq |-> 0,
                            readFailed |-> FALSE])
    /\ UNCHANGED <<threadIdMap, liveThreads, uuidCount, restored>>
    /\ lastResult' = NoResult

\* mutant: the cursor is reused, not advanced
NextSeqOf_NoIncrement(indexData) == indexData.lastSeq

\* lines 64-65: nextSeq = (indexData.lastSeq || 0) + 1
NextSeqOf(indexData) == indexData.lastSeq + 1

\* lines 41-70: resolve the threadId or mint one, prepare the entry, number the row
UpsertResolve(c) ==
    /\ c.pc = "resolve" /\ c.op = "upsert"
    /\ LET h == c.h
           d == c.indexData
           found == ResolveThreadId(d, h)
           isNew == found = undefined
           threadId == IF isNew THEN generateUuid(uuidCount) ELSE found
           uriStr == uriToString(liveThreads[h].uri)
           d1 == IF isNew
                 THEN [d EXCEPT !.threads = Put(@, threadId, NewEntry(threadId, uriStr, c.range, c.nowIso)),
                                !.byUri = PushUnique(@, uriStr, threadId)]
                 ELSE d
       IN  /\ threadIdMap' = IF isNew THEN [threadIdMap EXCEPT ![h] = threadId] ELSE threadIdMap
           /\ uuidCount' = IF isNew THEN uuidCount + 1 ELSE uuidCount
           /\ calls' = Advance(c, [c EXCEPT !.pc = "append", !.indexData = d1,
                                              !.threadId = threadId, !.isNewThread = isNew,
                                              !.nextSeq = NextSeqOf(d1)])
    /\ UNCHANGED <<indexFile, logFile, liveThreads, opCount, restored, lastResult>>

\* mutant: the new line is written at the head of the file
appendJsonl_Prepends(file, obj) == <<obj>> \o file

\* part_006:77-81: fs.promises.appendFile adds the line at the end of the file
appendJsonl(file, obj) == Append(file, obj)

\* os.userInfo().username || 'unknown'
Author == "user"

\* lines 72-80: one row is appended to review.jsonl (the commentId, an opaque
\* unique string no reader of the log uses, is left out of the row)
UpsertAppend(c) ==
    /\ c.pc = "append" /\ c.op = "upsert"
    /\ logFile' = appendJsonl(logFile, [threadId |-> c.threadId, seq |-> c.nextSeq,
                                        createdAt |-> c.nowIso, author |-> Author,
                                        body |-> c.text])
    /\ calls' = Advance(c, [c EXCEPT !.pc = "save"])
    /\ UNCHANGED <<indexFile, threadIdMap, liveThreads, uuidCount, opCount, restored, lastResult>>

\* mutant: firstSeq is overwritten on every comment
UpdateStats_FirstSeqOverwritten(indexData, threadId, nextSeq, nowIso) ==
    LET t1 == [indexData.threads[threadId] EXCEPT !.commentCount = @ + 1, !.updatedAt = nowIso,
                        !.firstSeq = nextSeq, !.lastSeq = nextSeq]
    IN  [indexData EXCEPT !.threads = Put(@, threadId, t1), !.lastSeq = nextSeq]

\* mutant: commentCount is set to 1, not incremented
UpdateStats_CountReset(indexData, threadId, nextSeq, nowIso) ==
    LET t1 == [indexData.threads[threadId] EXCEPT !.commentCount = 1, !.updatedAt = nowIso,
                        !.firstSeq = IF @ = undefined THEN nextSeq ELSE @,
                        !.lastSeq = nextSeq]
    IN  [indexData EXCEPT !.threads = Put(@, threadId, t1), !.lastSeq = nextSeq]

\* mutant: the entry's lastSeq is set once, like firstSeq
UpdateStats_LastSeqOnce(indexData, threadId, nextSeq, nowIso) ==
    LET t1 == [indexData.threads[threadId] EXCEPT !.commentCount = @ + 1, !.updatedAt = nowIso,
                        !.firstSeq = IF @ = undefined THEN nextSeq ELSE @,
                        !.lastSeq = IF @ = undefined THEN nextSeq ELSE @]
    IN  [indexData EXCEPT !.threads = Put(@, threadId, t1), !.lastSeq = nextSeq]

\* mutant: the global cursor is not advanced
UpdateStats_CursorKept(indexData, threadId, nextSeq, nowIso) ==
    LET t1 == [indexData.threads[threadId] EXCEPT !.commentCount = @ + 1, !.updatedAt = nowIso,
                        !.firstSeq = IF @ = undefined THEN nextSeq ELSE @,
                        !.lastSeq = nextSeq]
    IN  [indexData EXCEPT !.threads = Put(@, threadId, t1)]

\* mutant: a comment reopens the thread
UpdateStats_Reopens(indexData, threadId, nextSeq, nowIso) ==
    LET t1 == [indexData.threads[threadId] EXCEPT !.commentCount = @ + 1, !.updatedAt = nowIso,
                        !.firstSeq = IF @ = undefined THEN nextSeq ELSE @,
                        !.lastSeq = nextSeq, !.state = "open"]
    IN  [indexData EXCEPT !.threads = Put(@, threadId, t1), !.lastSeq = nextSeq]

\* mutant: the comment is counted twice
UpdateStats_CountsTwice(indexData, threadId, nextSeq, nowIso) ==
    LET t1 == [indexData.threads[threadId] EXCEPT !.commentCount = @ + 2, !.updatedAt = nowIso,
                        !.firstSeq = IF @ = undefined THEN nextSeq ELSE @,
                        !.lastSeq = nextSeq]
    IN  [indexData EXCEPT !.threads = Put(@, threadId, t1), !.lastSeq = nextSeq]

\* lines 83-88: the entry's rollup and the global cursor
UpdateStats(indexData, threadId, nextSeq, nowIso) ==
    LET t == indexData.threads[threadId]
        t1 == [t EXCEPT !.commentCount = @ + 1, !.updatedAt = nowIso,
                        !.firstSeq = IF @ = undefined THEN nextSeq ELSE @,
                        !.lastSeq = nextSeq]
    IN  [indexData EXCEPT !.threads = Put(@, threadId, t1), !.lastSeq = nextSeq]

\* mutant: the comment is shown although the call failed
FailedUpsertUi_Optimistic(c) ==
    liveThreads' = [liveThreads EXCEPT
            ![c.h].comments = Append(@, [author |-> Author, body |-> c.text, timestamp |-> c.nowIso]),
            ![c.h].contextValue = "locore:unresolved"]

\* an exception at lines 73-89 leaves upsertReview before lines 91-101
FailedUpsertUi(c) == UNCHANGED liveThreads

\* lines 73-80 when mkdir or appendFile fails: appendJsonl throws, nothing is
\* written, and the exception leaves upsertReview
UpsertAppendFails(c) ==
    /\ c.pc = "append" /\ c.op = "upsert"
    /\ calls' = EndCall(c)
    /\ lastResult' = Rejected("appendJsonl")
    /\ FailedUpsertUi(c)
    /\ UNCHANGED <<indexFile, logFile, threadIdMap, uuidCount, opCount, restored>>

\* lines 82-89 when mkdir or writeFile fails: writeIndexJson throws, the index
\* file is as it was, and the exception leaves upsertReview
UpsertSaveFails(c) ==
    /\ c.pc = "save" /\ c.op = "upsert"
    /\ Has(c.indexData.threads, c.threadId)
    /\ calls' = EndCall(c)
    /\ lastResult' = Rejected("writeIndexJson")
    /\ FailedUpsertUi(c)
    /\ UNCHANGED <<indexFile, logFile, threadIdMap, uuidCount, opCount, restored>>

\* lines 82-89: a threadId that is no key of the loaded index makes line 84
\* throw a TypeError, which ends the call; otherwise indexData is updated in
\* place and saved
UpsertSave(c) ==
    /\ c.pc = "save" /\ c.op = "upsert"
    /\ IF Has(c.indexData.threads, c.threadId)
       THEN LET data == UpdateStats(c.indexData, c.threadId, c.nextSeq, c.nowIso)
            IN  /\ indexFile' = writeIndexJson(data)
                /\ calls' = Advance(c, [c EXCEPT !.pc = "ui", !.indexData = data])
                /\ UNCHANGED lastResult
       ELSE /\ calls' = EndCall(c)
            /\ lastResult' = Rejected("TypeError")
            /\ UNCHANGED indexFile
    /\ UNCHANGED <<logFile, threadIdMap, liveThreads, uuidCount, opCount, restored>>

\* lines 91-103: the comment is shown on the live thread
UpsertUi(c) ==
    /\ c.pc = "ui" /\ c.op = "upsert"
    /\ liveThreads' = [liveThreads EXCEPT
            ![c.h].comments = Append(@, [author |-> Author, body |-> c.text, timestamp |-> c.nowIso]),
            ![c.h].contextValue = "locore:unresolved"]
    /\ calls' = EndCall(c)
    /\ UNCHANGED <<indexFile, logFile, threadIdMap, uuidCount, opCount, restored>>
    /\ lastResult' = Resolved("info")

(* -------------------------- setThreadState ----------------------------- *)

\* lines 114-118: thread.uri is defined for every live thread; the index is read
SetStateBegin(h, state) ==
    /\ Live(h)
    /\ BagCardinality(calls) < MaxCalls
    /\ opCount < MaxOps
    /\ opCount' = opCount + 1
    /\ calls' = StartCall([pc |-> "resolve", op |-> "setState", h |-> h, state |-> state,
                            indexData |-> readIndexJson(indexFile), threadId |-> undefined])
    /\ UNCHANGED <<indexFile, logFile, threadIdMap, liveThreads, uuidCount, restored>>
    /\ lastResult' = NoResult

\* mutant: the entry moves to the relative key but stays listed under the absolute one
ApplyState_KeepAbs(indexData, threadId, state, uriKey, absKey, nowIso) ==
    LET t1 == [indexData.threads[threadId] EXCEPT !.state = state, !.updatedAt = nowIso, !.uri = uriKey]
    IN  [indexData EXCEPT !.threads = Put(@, threadId, t1),
                          !.byUri = PushUnique(@, uriKey, threadId)]

\* mutant: the state change also resets the entry's commentCount
ApplyState_CountReset(indexData, threadId, state, uriKey, absKey, nowIso) ==
    LET t1 == [indexData.threads[threadId] EXCEPT !.state = state, !.updatedAt = nowIso,
                                                   !.uri = uriKey, !.commentCount = 0]
    IN  [indexData EXCEPT !.threads = Put(@, threadId, t1),
                          !.byUri = PushUnique(@, uriKey, threadId)]

\* lines 147-159: state, the move of the entry to the relative key, byUri repair
ApplyState(indexData, threadId, state, uriKey, absKey, nowIso) ==
    LET t1 == [indexData.threads[threadId] EXCEPT !.state = state, !.updatedAt = nowIso, !.uri = uriKey]
        b0 == indexData.byUri
        b1 == IF Has(b0, absKey)
              THEN IF Len(Filter(b0[absKey], threadId)) = 0
                   THEN Del(b0, absKey)
                   ELSE Put(b0, absKey, Filter(b0[absKey], threadId))
              ELSE b0
    IN  [indexData EXCEPT !.threads = Put(@, threadId, t1),
                          !.byUri = PushUnique(b1, uriKey, threadId)]

\* lines 121-159: resolve or mint, then update the loaded document; a threadId
\* that is no key of the loaded index makes line 149 throw, which ends the call
SetStateResolve(c) ==
    /\ c.pc = "resolve" /\ c.op = "setState"
    /\ LET h == c.h
           d == c.indexData
           found == ResolveThreadId(d, h)
           isNew == found = undefined
           threadId == IF isNew THEN generateUuid(uuidCount) ELSE found
           nowIso == Clock
           uriKey == keyFromThread(liveThreads[h])
           absKey == uriToString(liveThreads[h].uri)
           d1 == IF isNew
                 THEN [d EXCEPT !.threads = Put(@, threadId, NewEntry(threadId, uriKey, liveThreads[h].range, nowIso)),
                                !.byUri = PushUnique(@, uriKey, threadId)]
                 ELSE d
       IN  /\ threadIdMap' = IF isNew THEN [threadIdMap EXCEPT ![h] = threadId] ELSE threadIdMap
           /\ uuidCount' = IF isNew THEN uuidCount + 1 ELSE uuidCount
           /\ IF Has(d1.threads, threadId)
              THEN /\ calls' = Advance(c, [c EXCEPT !.pc = "save", !.threadId = threadId,
                                   !.indexData = ApplyState(d1, threadId, c.state, uriKey, absKey, nowIso)])
                   /\ UNCHANGED lastResult
              ELSE /\ calls' = EndCall(c)
                   /\ lastResult' = Rejected("TypeError")
    /\ UNCHANGED <<indexFile, logFile, liveThreads, opCount, restored>>

\* line 160: writeIndexJson
SetStateSave(c) ==
    /\ c.pc = "save" /\ c.op = "setState"
    /\ indexFile' = writeIndexJson(c.indexData)
    /\ calls' = Advance(c, [c EXCEPT !.pc = "ui"])
    /\ UNCHANGED <<logFile, threadIdMap, liveThreads, uuidCount, opCount, restored, lastResult>>

\* line 160 when mkdir or writeFile fails: the exception leaves setThreadState
\* before lines 162-165
SetStateSaveFails(c) ==
    /\ c.pc = "save" /\ c.op = "setState"
    /\ calls' = EndCall(c)
    /\ lastResult' = Rejected("writeIndexJson")
    /\ UNCHANGED <<indexFile, logFile, threadIdMap, liveThreads, uuidCount, opCount, restored>>

\* lines 162-165: the live thread shows the new state
SetStateUi(c) ==
    /\ c.pc = "ui" /\ c.op = "setState"
    /\ LET isClosed == c.state = "closed"
       IN  liveThreads' = [liveThreads EXCEPT
                ![c.h].state = IF isClosed THEN "Resolved" ELSE "Unresolved",
                ![c.h].contextValue = IF isClosed THEN "locore:resolved" ELSE "locore:unresolved"]
    /\ calls' = EndCall(c)
    /\ UNCHANGED <<indexFile, logFile, threadIdMap, uuidCount, opCount, restored>>
    /\ lastResult' = Resolved("none")

(* ------------------------- reading the log ----------------------------- *)

\* typeof v === 'string': the strings that stand for threadIds are the positive
\* numbers generateUuid returns; a JSON number is a negative one
IsString(v) == v > 0

\* lines 92-93: raw.trim() is empty
IsBlank(raw) == "text" \in DOMAIN raw /\ raw.text \in {"", " "}

\* lines 95-97: the line parses, to something truthy whose threadId is a string
ParsesAsRow(raw) ==
    /\ ~ParseThrows(raw)
    /\ ~NotAnObject(raw)
    /\ "threadId" \in DOMAIN raw
    /\ IsString(raw.threadId)

KeepsLine(raw) == ~IsBlank(raw) /\ ParsesAsRow(raw)

\* mutant: reading stops at the first line that is not a row
RECURSIVE readAllJsonl_StopsAtBadLine(_)
readAllJsonl_StopsAtBadLine(file) ==
    IF file = MissingLog \/ file = <<>> THEN <<>>
    ELSE IF KeepsLine(Head(file)) THEN <<Head(file)>> \o readAllJsonl_StopsAtBadLine(Tail(file))
    ELSE <<>>

\* lines 87-107: every line that parses as a row, in file order; [] when the
\* file cannot be read
RECURSIVE readAllJsonl(_)
readAllJsonl(file) ==
    IF file = MissingLog \/ file = <<>> THEN <<>>
    ELSE IF KeepsLine(Head(file)) THEN <<Head(file)>> \o readAllJsonl(Tail(file))
    ELSE readAllJsonl(Tail(file))

(* ---------------------- restoreExistingThreads ------------------------- *)

\* a.seq ?? 0
SeqOrZero(r) == IF "seq" \in DOMAIN r THEN r.seq ELSE 0

\* r goes behind every row whose seq is not greater: Array.prototype.sort is stable
RECURSIVE InsertBySeq(_, _)
InsertBySeq(list, r) ==
    IF list = <<>> THEN <<r>>
    ELSE IF SeqOrZero(list[Len(list)]) <= SeqOrZero(r) THEN Append(list, r)
    ELSE Append(InsertBySeq(SubSeq(list, 1, Len(list) - 1), r), list[Len(list)])

\* mutant: the rows stay in file order
SortBySeq_FileOrder(list) == list

\* line 79: list.sort((a, b) => (a.seq ?? 0) - (b.seq ?? 0))
RECURSIVE SortBySeq(_)
SortBySeq(list) ==
    IF list = <<>> THEN <<>>
    ELSE InsertBySeq(SortBySeq(SubSeq(list, 1, Len(list) - 1)), list[Len(list)])

\* mutant: every thread gets every row
RowsByThread_AllRows(rows, threadId) == SortBySeq(rows)

\* mutant: a thread without rows of its own gets every row
RowsByThread_FallbackAll(rows, threadId) ==
    LET own == SelectSeq(rows, LAMBDA r : r.threadId = threadId)
    IN  IF own = <<>> THEN SortBySeq(rows) ELSE SortBySeq(own)

\* lines 74-79 and 97: the rows of one thread, by seq
RowsByThread(rows, threadId) ==
    SortBySeq(SelectSeq(rows, LAMBDA r : r.threadId = threadId))

\* parseStoredUri(t.uri, workspaceRoot) throws on a location that is neither an
\* absolute URI nor a workspace-relative path
ParseStoredUriThrows(key) == key[1] \notin {"abs", "rel"}

\* parseStoredUri(t.uri, workspaceRoot): the file the stored location denotes
parseStoredUri(key) == key[2]

\* lines 84-88: the location does not parse, or t.range is undefined
RestoreThrows(t) == ParseStoredUriThrows(t.uri) \/ "range" \notin DOMAIN t

\* lines 98-104
RestoredComment(r) == [author |-> r.author, body |-> r.body, timestamp |-> r.createdAt]

RECURSIVE MapComments(_)
MapComments(rows) ==
    IF rows = <<>> THEN <<>> ELSE <<RestoredComment(Head(rows))>> \o MapComments(Tail(rows))

\* lines 84-104: the live thread created for entry t, stored under threadId
RestoredThread(threadId, t, rows) ==
    [uri |-> parseStoredUri(t.uri), range |-> t.range,
     comments |-> MapComments(RowsByThread(rows, threadId)),
     state |-> IF t.state = "closed" THEN "Resolved" ELSE "Unresolved",
     contextValue |-> IF t.state = "closed" THEN "locore:resolved" ELSE "locore:unresolved",
     collapsibleState |-> "Collapsed"]

\* Object.keys(indexData.threads): keys come in insertion order, which is the
\* order the threadIds were minted in
RECURSIVE KeysOf(_)
KeysOf(S) == IF S = {} THEN <<>> ELSE <<Min(S)>> \o KeysOf(S \ {Min(S)})

\* mutant: the loop ends at the first entry that cannot be restored
RECURSIVE RestoreLoop_StopsAtFailure(_, _, _)
RestoreLoop_StopsAtFailure(keys, indexData, rows) ==
    IF keys = <<>> THEN <<>>
    ELSE LET t == indexData.threads[Head(keys)]
         IN  IF RestoreThrows(t) THEN <<>>
             ELSE <<[threadId |-> Head(keys), thread |-> RestoredThread(Head(keys), t, rows)]>>
                    \o RestoreLoop_StopsAtFailure(Tail(keys), indexData, rows)

\* mutant: an entry without a row in the log is left out
RECURSIVE RestoreLoop_OnlyCommented(_, _, _)
RestoreLoop_OnlyCommented(keys, indexData, rows) ==
    IF keys = <<>> THEN <<>>
    ELSE LET t == indexData.threads[Head(keys)]
             rest == RestoreLoop_OnlyCommented(Tail(keys), indexData, rows)
         IN  IF RestoreThrows(t) \/ RowsByThread(rows, Head(keys)) = <<>> THEN rest
             ELSE <<[threadId |-> Head(keys), thread |-> RestoredThread(Head(keys), t, rows)]>> \o rest

\* lines 81-108: one live thread per entry, an entry that throws is skipped
RECURSIVE RestoreLoop(_, _, _)
RestoreLoop(keys, indexData, rows) ==
    IF keys = <<>> THEN <<>>
    ELSE LET t == indexData.threads[Head(keys)]
             rest == RestoreLoop(Tail(keys), indexData, rows)
         IN  IF RestoreThrows(t) THEN rest
             ELSE <<[threadId |-> Head(keys), thread |-> RestoredThread(Head(keys), t, rows)]>> \o rest

\* the editor window is reloaded: the extension host starts again with an empty
\* threadIdMap and no live thread, and activation calls restoreExistingThreads
\* on the stores as they are
Reload ==
    /\ Quiescent
    /\ opCount < MaxOps
    /\ opCount' = opCount + 1
    /\ threadIdMap' = [h \in Handles |-> undefined]
    /\ liveThreads' = [h \in Handles |-> NoThread]
    /\ calls' = StartCall([pc |-> "readIndex", op |-> "restore"])
    /\ UNCHANGED <<indexFile, logFile, uuidCount, restored>>
    /\ lastResult' = NoResult

\* the extension host dies while calls are in flight: their locals, the
\* threadIdMap and the live threads are gone, the files are as the last
\* completed write left them, and the next activation restores from them
Crash ==
    /\ ~Quiescent
    /\ opCount < MaxOps
    /\ opCount' = opCount + 1
    /\ threadIdMap' = [h \in Handles |-> undefined]
    /\ liveThreads' = [h \in Handles |-> NoThread]
    /\ calls' = SetToBag({[pc |-> "readIndex", op |-> "restore"]})
    /\ UNCHANGED <<indexFile, logFile, uuidCount, restored>>
    /\ lastResult' = NoResult

\* mutant: restoration empties the log it has read
RestoreKeepsStores_ConsumesLog == logFile' = <<>> /\ UNCHANGED indexFile

\* restoreExistingThreads has no call that writes a file
RestoreKeepsStores == UNCHANGED <<indexFile, logFile>>

\* line 70: readIndexJson
RestoreReadIndex(c) ==
    /\ c.pc = "readIndex" /\ c.op = "restore"
    /\ calls' = Advance(c, [pc |-> "readLog", op |-> "restore",
                            indexData |-> readIndexJson(indexFile)])
    /\ RestoreKeepsStores
    /\ UNCHANGED <<threadIdMap, liveThreads, uuidCount, opCount, restored, lastResult>>

\* line 71: readAllJsonl
RestoreReadLog(c) ==
    /\ c.pc = "readLog" /\ c.op = "restore"
    /\ calls' = Advance(c, [pc |-> "threads", op |-> "restore", indexData |-> c.indexData,
                            jsonlRows |-> readAllJsonl(logFile)])
    /\ RestoreKeepsStores
    /\ UNCHANGED <<threadIdMap, liveThreads, uuidCount, opCount, restored, lastResult>>

\* the handles no live thread uses, lowest first
FreeHandles == KeysOf({ h \in Handles : ~Live(h) })

\* lines 73-108: the restored threads become live and enter threadIdMap; restored
\* keeps, for every run, the stores it ran on and what it restored
RestoreThreads(c) ==
    /\ c.pc = "threads" /\ c.op = "restore"
    /\ LET out == RestoreLoop(KeysOf(DOMAIN c.indexData.threads), c.indexData, c.jsonlRows)
           slot(h) == CHOOSE k \in 1..Len(FreeHandles) : FreeHandles[k] = h
           used == { FreeHandles[k] : k \in 1..Len(out) }
       IN  /\ Len(out) <= Len(FreeHandles)
           /\ liveThreads' = [h \in Handles |->
                                IF h \in used THEN out[slot(h)].thread ELSE liveThreads[h]]
           /\ threadIdMap' = [h \in Handles |->
                                IF h \in used THEN out[slot(h)].threadId ELSE threadIdMap[h]]
           /\ restored' = Append(restored, [indexFile |-> indexFile, logFile |-> logFile,
                                            threads |-> out])
    /\ calls' = EndCall(c)
    /\ RestoreKeepsStores
    /\ UNCHANGED <<uuidCount, opCount>>
    /\ lastResult' = Resolved("none")

(* ----------------------- initializeReviewStores ------------------------ *)

\* activation calls initializeReviewStores
BootstrapBegin ==
    /\ Quiescent
    /\ calls' = StartCall([pc |-> "initIndex", op |-> "bootstrap"])
    /\ lastResult' = NoResult
    /\ UNCHANGED <<indexFile, logFile, threadIdMap, liveThreads, uuidCount, opCount, restored>>

\* lines 113-117
BootstrapIndex(c) ==
    /\ c.pc = "initIndex" /\ c.op = "bootstrap"
    /\ indexFile' = initializeIndexJson(indexFile)
    /\ calls' = Advance(c, [c EXCEPT !.pc = "initLog"])
    /\ UNCHANGED <<logFile, threadIdMap, liveThreads, uuidCount, opCount, restored, lastResult>>

\* lines 118-122
BootstrapLog(c) ==
    /\ c.pc = "initLog" /\ c.op = "bootstrap"
    /\ logFile' = initializeJsonlLog(logFile)
    /\ calls' = EndCall(c)
    /\ lastResult' = Resolved("none")
    /\ UNCHANGED <<indexFile, threadIdMap, liveThreads, uuidCount, opCount, restored>>

BootstrapStep ==
    \/ \E c \in InFlight : BootstrapIndex(c)
    \/ \E c \in InFlight : BootstrapLog(c)

(* --------------------------- specifications ---------------------------- *)

Step ==
    \/ \E c \in InFlight : UpsertResolve(c)
    \/ \E c \in InFlight : UpsertAppend(c)
    \/ \E c \in InFlight : UpsertSave(c)
    \/ \E c \in InFlight : UpsertUi(c)
    \/ \E c \in InFlight : SetStateResolve(c)
    \/ \E c \in InFlight : SetStateSave(c)
    \/ \E c \in InFlight : SetStateUi(c)

\* the steps of a restoration in flight
RestoreStep ==
    \/ \E c \in InFlight : RestoreReadIndex(c)
    \/ \E c \in InFlight : RestoreReadLog(c)
    \/ \E c \in InFlight : RestoreThreads(c)

\* calls whose I/O waits interleave
Next ==
    \/ \E f \in Files, r \in Ranges : CreateThread(f, r)
    \/ \E h \in Handles, text \in Texts : UpsertBegin(h, text)
    \/ \E h \in Handles, s \in States : SetStateBegin(h, s)
    \/ Step

Spec == Init /\ [][Next]_vars

\* one call at a time: a call starts only when no other call is in flight
NextSeq ==
    \/ \E f \in Files, r \in Ranges : Quiescent /\ CreateThread(f, r)
    \/ \E h \in Handles, text \in Texts : Quiescent /\ UpsertBegin(h, text)
    \/ \E h \in Handles, s \in States : Quiescent /\ SetStateBegin(h, s)
    \/ Reload
    \/ Step
    \/ RestoreStep

SpecSeq == Init /\ [][NextSeq]_vars

\* one call at a time, where the ranges of live threads move between calls
NextShift ==
    \/ \E f \in Files, r \in Ranges : Quiescent /\ CreateThread(f, r)
    \/ \E h \in Handles, r \in Ranges : Quiescent /\ ShiftRange(h, r)
    \/ \E h \in Handles, text \in Texts : Quiescent /\ UpsertBegin(h, text)
    \/ \E h \in Handles, s \in States : Quiescent /\ SetStateBegin(h, s)
    \/ Reload
    \/ Step
    \/ RestoreStep

SpecShift == Init /\ [][NextShift]_vars

\* the content of index.json is damaged outside the extension: JSON.parse
\* throws on it (part_006:53, 138), so readIndexJson returns the default
\* document and initializeIndexJson writes the default document over it
CorruptIndex ==
    /\ ~ParseThrows(indexFile)
    /\ indexFile' = [text |-> "{broken"]
    /\ UNCHANGED <<logFile, threadIdMap, liveThreads, uuidCount, calls, opCount, restored, lastResult>>

\* one call at a time, every file operation succeeding, where the index may
\* be damaged between two calls
NextLost ==
    \/ \E f \in Files, r \in Ranges : Quiescent /\ CreateThread(f, r)
    \/ \E h \in Handles, text \in Texts : Quiescent /\ UpsertBegin(h, text)
    \/ \E h \in Handles, st \in States : Quiescent /\ SetStateBegin(h, st)
    \/ Quiescent /\ CorruptIndex
    \/ Step

SpecLost == Init /\ [][NextLost]_vars

\* one call at a time, where the host may crash while a call is in flight and
\* every file operation succeeds
NextCrash ==
    \/ \E f \in Files, r \in Ranges : Quiescent /\ CreateThread(f, r)
    \/ \E h \in Handles, text \in Texts : Quiescent /\ UpsertBegin(h, text)
    \/ \E h \in Handles, s \in States : Quiescent /\ SetStateBegin(h, s)
    \/ Reload
    \/ Crash
    \/ Step
    \/ RestoreStep

SpecCrash == Init /\ [][NextCrash]_vars

\* the stores before the first call: prepared by an activation, or not there yet
InitFail ==
    /\ indexFile \in {DefaultIndex, MissingFile}
    /\ logFile \in {<<>>, MissingLog}
    /\ threadIdMap = [h \in Handles |-> undefined]
    /\ liveThreads = [h \in Handles |-> NoThread]
    /\ uuidCount = 0
    /\ calls = EmptyBag
    /\ opCount = 0
    /\ restored = <<>>
    /\ lastResult = NoResult

\* the I/O of a call fails
FailStep ==
    \/ \E c \in InFlight : UpsertAppendFails(c)
    \/ \E c \in InFlight : UpsertSaveFails(c)
    \/ \E c \in InFlight : SetStateSaveFails(c)

\* one call at a time, where file operations fail and the host crashes
NextFail ==
    \/ \E f \in Files, r \in Ranges : Quiescent /\ CreateThread(f, r)
    \/ \E h \in Handles, text \in Texts : Quiescent /\ UpsertBegin(h, text)
    \/ \E h \in Handles, text \in Texts : Quiescent /\ UpsertNoWorkspace(h, text)
    \/ \E h \in Handles, text \in Texts : Quiescent /\ UpsertBeginReadFails(h, text)
    \/ \E h \in Handles, text \in Texts : Quiescent /\ UpsertBeginInitFails(h, text)
    \/ \E h \in Handles, s \in States : Quiescent /\ SetStateBegin(h, s)
    \/ Reload
    \/ Crash
    \/ Step
    \/ FailStep
    \/ RestoreStep

SpecFail == InitFail /\ [][NextFail]_vars

(* ------------------- stores of any content on disk --------------------- *)

StoreIds == {1, 2}

EntryKinds == {"open", "closed", "badLocation", "noRange"}

\* an entry as a file edited or damaged outside the program may hold it
StoreEntry(id, kind) ==
    IF kind = "noRange"
    THEN [threadId |-> id, uri |-> uriToString("a.ts"), state |-> "open",
          createdAt |-> 1, updatedAt |-> 1, commentCount |-> 0]
    ELSE [threadId |-> id,
          uri |-> IF kind = "badLocation" THEN <<"bad", "a.ts">> ELSE uriToString("a.ts"),
          range |-> Range(0, 0, 1, 1),
          state |-> IF kind = "closed" THEN "closed" ELSE "open",
          createdAt |-> 1, updatedAt |-> 1, commentCount |-> 0]

StoreThreads ==
    UNION { { [i \in S |-> StoreEntry(i, k[i])] : k \in [S -> EntryKinds] } : S \in SUBSET StoreIds }

\* three entries, the middle one not restorable
MixedThreads ==
    { <<StoreEntry(1, "open"), StoreEntry(2, k), StoreEntry(3, "closed")>> :
        k \in {"badLocation", "noRange"} }

\* index.json: missing, not JSON, a primitive, an array, an object without
\* version, a document of version 2, documents of version 1
StoreIndexFiles ==
    { MissingFile, [text |-> "{broken"], [json |-> "null"], [json |-> "42"], [array |-> <<>>],
      [lastSeq |-> 2, threads |-> <<StoreEntry(1, "open")>>, byUri |-> <<>>],
      [version |-> 2, lastSeq |-> 2, threads |-> <<StoreEntry(1, "closed")>>, byUri |-> <<>>] }
    \cup { [version |-> 1, lastSeq |-> 2, threads |-> m, byUri |-> <<>>] :
              m \in StoreThreads \cup MixedThreads }

StoreRow(id, seq, body) ==
    [threadId |-> id, seq |-> seq, createdAt |-> 1, author |-> Author, body |-> body]

\* lines of review.jsonl: rows (one without seq), text that is not JSON
\* (broken, cut off in mid-write, blank), null, an object without threadId, an
\* object whose threadId is a number
StoreLines ==
    { StoreRow(1, 1, "a"), StoreRow(1, 2, "b"), StoreRow(2, 1, "c"),
      [threadId |-> 1, createdAt |-> 1, author |-> Author, body |-> "d"],
      [text |-> "{broken json}"], [text |-> "{\"threadId\":\"1\",\"se"], [text |-> ""],
      [json |-> "null"],
      [seq |-> 1, createdAt |-> 1, author |-> Author, body |-> "e"],
      [threadId |-> -1, seq |-> 1, createdAt |-> 1, author |-> Author, body |-> "f"] }

MaxLines == 3

StoreLogFiles ==
    {MissingLog} \cup UNION { [1..n -> StoreLines] : n \in 0..MaxLines }

\* the indexes that the longest logs are combined with
CoreIndexFiles ==
    { MissingFile,
      [version |-> 1, lastSeq |-> 2, byUri |-> <<>>,
       threads |-> <<StoreEntry(1, "open"), StoreEntry(2, "closed")>>] }

InitStore ==
    /\ indexFile \in StoreIndexFiles
    /\ logFile \in StoreLogFiles
    /\ logFile = MissingLog \/ Len(logFile) < MaxLines \/ indexFile \in CoreIndexFiles
    /\ threadIdMap = [h \in Handles |-> undefined]
    /\ liveThreads = [h \in Handles |-> NoThread]
    /\ uuidCount = 0
    /\ calls = EmptyBag
    /\ opCount = 0
    /\ restored = <<>>
    /\ lastResult = NoResult

\* restorations of stores of any content
NextStore ==
    \/ Reload
    \/ RestoreStep

SpecStore == InitStore /\ [][NextStore]_vars

\* bootstraps of stores of any content
NextBoot ==
    \/ BootstrapBegin
    \/ BootstrapStep

SpecBoot == InitStore /\ [][NextBoot]_vars

(* ------------------------------ claims --------------------------------- *)

EntryIds == DOMAIN indexFile.threads

Entry(id) == ReadEntry(indexFile.threads[id])

RowsOf(id) == { i \in 1..Len(logFile) : logFile[i].threadId = id }

SeqsOfLog == { logFile[i].seq : i \in 1..Len(logFile) }

\* the file a stored location key denotes
FileOfKey(key) == key[2]

\* the live threads that show at least one comment
Commented == { h \in Handles : Live(h) /\ Len(liveThreads[h].comments) > 0 }

\* no setThreadState has run: it is the only code that sets thread.state
UpsertsOnly == Quiescent /\ \A h \in Handles : Live(h) => liveThreads[h].state = "unset"

\* every upsert so far went to a live thread of its own, at a (file, range) of its own
DistinctPairs ==
    \A h \in Commented :
        /\ Len(liveThreads[h].comments) = 1
        /\ \A g \in Commented \ {h} :
              \/ liveThreads[g].uri # liveThreads[h].uri
              \/ liveThreads[g].range # liveThreads[h].range

\* C1: from the empty store, after N non-overlapping upserts, each on a live
\* thread at a distinct (location, range), the index holds exactly N entries,
\* each with commentCount 1, and the log holds exactly N rows whose seq values
\* are exactly 1..N.
C1_DistinctUpserts ==
    (UpsertsOnly /\ DistinctPairs) =>
        LET N == Cardinality(Commented)
        IN  /\ Cardinality(EntryIds) = N
            /\ \A id \in EntryIds : Entry(id).commentCount = 1
            /\ Len(logFile) = N
            /\ SeqsOfLog = 1..N

C1_Witness ==
    /\ UpsertsOnly /\ DistinctPairs
    /\ Cardinality(Commented) = MaxOps
    /\ \E g, h \in Commented : g # h /\ liveThreads[g].uri = liveThreads[h].uri

\* the step in which the upsertReview call c saves the index
UpsertSaves(c) ==
    /\ c.pc = "save" /\ c.op = "upsert"
    /\ \E c1 \in BagToSet(calls') : c1.pc = "ui" /\ calls' = Advance(c, c1)

\* C2: in non-overlapping runs a successful upsert appends exactly one row,
\* numbered index.lastSeq + 1; it sets index.lastSeq and the entry's lastSeq to
\* that seq, adds 1 to the entry's commentCount, and sets firstSeq to that seq
\* only when it was unset.  From the empty store, two upserts on one live
\* thread and a setState(closed) on it give firstSeq 1, lastSeq 2,
\* commentCount 2, state closed and exactly 2 rows.
C2_StepEffect ==
    /\ logFile' # logFile =>
          /\ \E c \in InFlight : c.pc = "append" /\ calls' = Advance(c, [c EXCEPT !.pc = "save"])
          /\ Len(logFile') = Len(logFile) + 1
          /\ SubSeq(logFile', 1, Len(logFile)) = logFile
          /\ logFile'[Len(logFile')].seq = indexFile.lastSeq + 1
    /\ \A c \in InFlight : UpsertSaves(c) =>
          LET id == c.threadId
              row == logFile[Len(logFile)]
              known == Has(indexFile.threads, id)
              before == IF known THEN indexFile.threads[id].commentCount ELSE 0
              after == ReadEntry(indexFile'.threads[id])
          IN  /\ row.threadId = id
              /\ row.seq = indexFile.lastSeq + 1
              /\ indexFile'.lastSeq = row.seq
              /\ after.lastSeq = row.seq
              /\ after.commentCount = before + 1
              /\ after.firstSeq = IF known /\ Entry(id).firstSeq # undefined
                                  THEN Entry(id).firstSeq
                                  ELSE row.seq

\* two upserts and a setState(closed), all on the one live thread h
TwoUpsertsAndClose(h) ==
    /\ Quiescent /\ opCount = 3
    /\ Live(h) /\ Len(liveThreads[h].comments) = 2 /\ liveThreads[h].state = "Resolved"

C2_Scenario ==
    \A h \in Handles : TwoUpsertsAndClose(h) =>
        /\ EntryIds = {threadIdMap[h]}
        /\ Entry(threadIdMap[h]).firstSeq = 1
        /\ Entry(threadIdMap[h]).lastSeq = 2
        /\ Entry(threadIdMap[h]).commentCount = 2
        /\ Entry(threadIdMap[h]).state = "closed"
        /\ Len(logFile) = 2

C2_UpsertEffect == [][C2_StepEffect]_vars /\ []C2_Scenario

C2_Witness == \E h \in Handles : TwoUpsertsAndClose(h)

\* C3: in non-overlapping runs of upserts and state changes the seq values of
\* the log rows, in file order, are strictly increasing (hence unique), whatever
\* threads the rows belong to.
C3_SeqIncreasing ==
    \A i, j \in 1..Len(logFile) : i < j => logFile[i].seq < logFile[j].seq

C3_Witness ==
    /\ Quiescent /\ Len(logFile) = 3
    /\ logFile[1].threadId # logFile[2].threadId
    /\ logFile[3].threadId = logFile[1].threadId

\* C4: after every completed call of a non-overlapping run, each entry's
\* commentCount equals the number of log rows that carry its threadId.
C4_CountMatchesLog ==
    Quiescent => \A id \in EntryIds : Entry(id).commentCount = Cardinality(RowsOf(id))

C4_Witness ==
    /\ Quiescent
    /\ \E id \in EntryIds : Entry(id).commentCount = 2
    /\ \E id \in EntryIds : Entry(id).commentCount = 0 /\ Entry(id).state = "closed"

\* rows of other threads numbered between the first and last comment of id
RowsBetween(id) ==
    { i \in 1..Len(logFile) :
        /\ logFile[i].threadId # id
        /\ Entry(id).firstSeq < logFile[i].seq
        /\ logFile[i].seq < Entry(id).lastSeq }

\* C5 as stated: after any non-overlapping upserts, spread over any number of
\* threads in any order, commentCount = lastSeq - firstSeq + 1 for every entry
\* with commentCount > 0.
C5_Contiguous ==
    UpsertsOnly =>
        \A id \in EntryIds :
            Entry(id).commentCount > 0 =>
                Entry(id).commentCount = Entry(id).lastSeq - Entry(id).firstSeq + 1

\* C5 amended: in non-overlapping runs, for every entry with commentCount > 0,
\* commentCount = lastSeq - firstSeq + 1 minus the number of log rows of other
\* threads numbered between firstSeq and lastSeq.
C5_ContiguousButForOthers ==
    Quiescent =>
        \A id \in EntryIds :
            Entry(id).commentCount > 0 =>
                Entry(id).commentCount =
                    Entry(id).lastSeq - Entry(id).firstSeq + 1 - Cardinality(RowsBetween(id))

C5_Witness ==
    /\ Quiescent
    /\ \E id \in EntryIds :
          /\ Entry(id).commentCount = 2
          /\ Entry(id).firstSeq = 1 /\ Entry(id).lastSeq = 3
          /\ RowsBetween(id) # {}

\* C6: in every index document persisted by an upsert or a state change, also
\* when calls overlap, the global lastSeq is at least the lastSeq of every entry.
C6_GlobalCursorBounds ==
    \A id \in EntryIds : Entry(id).lastSeq <= indexFile.lastSeq

\* two upserts overlapped (their rows share a seq) and an index save followed
C6_Witness ==
    /\ \E i, j \in 1..Len(logFile) : i < j /\ logFile[i].seq = logFile[j].seq
    /\ \E id \in EntryIds : Entry(id).lastSeq = indexFile.lastSeq /\ Entry(id).lastSeq = 2

\* C7: in every persisted index, every threadId listed in byUri[loc] is a key
\* of threads whose stored location equals loc; upsert's creation of an entry
\* under the absolute URI and setState's move of an entry to the
\* workspace-relative key both keep it.
C7_ByUriAgrees ==
    \A key \in DOMAIN indexFile.byUri :
        \A i \in 1..Len(indexFile.byUri[key]) :
            /\ Has(indexFile.threads, indexFile.byUri[key][i])
            /\ Entry(indexFile.byUri[key][i]).uri = key

\* an entry persisted under the absolute URI (a call in flight still holds that
\* document) is now persisted under the relative key, next to an entry that an
\* upsert stored under the absolute URI
C7_Witness ==
    /\ \E c \in InFlight : \E id \in DOMAIN c.indexData.threads :
          /\ c.indexData.threads[id].uri[1] = "abs"
          /\ Has(indexFile.threads, id)
          /\ Entry(id).uri[1] = "rel"
          /\ Includes(indexFile.byUri[Entry(id).uri], id)
    /\ \E id \in EntryIds : Entry(id).uri[1] = "abs"

\* C8: after any non-overlapping upserts and state changes on any live threads,
\* the index never holds two entries for the same file and the same range.
C8_OneEntryPerRange ==
    \A id1, id2 \in EntryIds :
        id1 # id2 =>
            \/ FileOfKey(Entry(id1).uri) # FileOfKey(Entry(id2).uri)
            \/ Entry(id1).range # Entry(id2).range

\* r itself and every range one line or one character away from it in one coordinate
Shifted(r) ==
    { x \in { Range(r.start.line + d[1], r.start.character + d[2],
                    r.end.line + d[3], r.end.character + d[4]) :
                d \in { <<0, 0, 0, 0>>, <<1, 0, 0, 0>>, <<-1, 0, 0, 0>>, <<0, 1, 0, 0>>,
                        <<0, -1, 0, 0>>, <<0, 0, 1, 0>>, <<0, 0, -1, 0>>, <<0, 0, 0, 1>>,
                        <<0, 0, 0, -1>> } } :
        /\ x.start.line >= 0 /\ x.start.character >= 0
        /\ x.end.line >= 0 /\ x.end.character >= 0 }

\* the ranges threads are placed at and their one-step neighbours
ProbeRanges == UNION { Shifted(r) : r \in Ranges }

Probe(f, r) == [uri |-> f, range |-> r]

\* C9: index resolution of an uncached live thread returns a threadId only if
\* that entry's stored range equals the live range in all four coordinates; a
\* live range that differs from every range stored for the location resolves
\* to none.
C9_ExactRange ==
    LET stored == { <<e, Entry(e)>> : e \in EntryIds }
    IN  \A f \in Files, r \in ProbeRanges :
            LET id == resolveThreadIdFromIndex(indexFile, Probe(f, r))
            IN  /\ id # undefined =>
                    \E p \in stored : /\ p[1] = id
                                       /\ p[2].range = r
                                       /\ FileOfKey(p[2].uri) = f
                /\ (\A p \in stored : FileOfKey(p[2].uri) = f => p[2].range # r)
                      => id = undefined

\* an uncached live thread one character away from a stored range resolves to none
C9_Witness ==
    \E h \in Handles : \E e \in EntryIds :
        /\ Live(h) /\ threadIdMap[h] = undefined
        /\ FileOfKey(Entry(e).uri) = liveThreads[h].uri
        /\ Entry(e).range.start.character # liveThreads[h].range.start.character
        /\ Entry(e).range.start.line = liveThreads[h].range.start.line
        /\ Entry(e).range.end = liveThreads[h].range.end
        /\ resolveThreadIdFromIndex(indexFile, liveThreads[h]) = undefined

\* C10: once an entry for file L and range R is persisted, any uncached live
\* thread at (L, R) resolves to that entry's threadId, whatever else is stored
\* for the file and under whichever key.
C10_PersistedResolves ==
    \A id \in EntryIds :
        resolveThreadIdFromIndex(indexFile, Probe(FileOfKey(Entry(id).uri), Entry(id).range)) = id

\* the step in which the setThreadState call c saves the index
SetStateSaves(c) ==
    c.op = "setState" /\ c.pc = "save" /\ calls' = Advance(c, [c EXCEPT !.pc = "ui"])

C11_Step ==
    /\ \A c \in InFlight : c.op = "setState" => logFile' = logFile
    /\ \A c \in InFlight :
          (SetStateSaves(c) /\ ~Has(indexFile.threads, c.threadId)) =>
              /\ DOMAIN indexFile'.threads = DOMAIN indexFile.threads \cup {c.threadId}
              /\ indexFile'.threads[c.threadId].commentCount = 0
              /\ indexFile'.threads[c.threadId].state = c.state
              /\ Has(indexFile'.byUri, indexFile'.threads[c.threadId].uri)
              /\ Includes(indexFile'.byUri[indexFile'.threads[c.threadId].uri], c.threadId)
              /\ indexFile'.lastSeq = indexFile.lastSeq

\* C11: a setState on a live thread without resolvable identity creates exactly
\* one new entry, with commentCount 0 and the requested state, lists it in
\* byUri, writes no log row and leaves index.lastSeq as it was.
C11_SetStateCreates == [][C11_Step]_vars

\* a thread that never had a comment was closed: its entry is the only one
C11_Witness ==
    /\ Quiescent /\ logFile = <<>> /\ indexFile.lastSeq = 0
    /\ \E h \in Handles :
          /\ Live(h) /\ liveThreads[h].state = "Resolved" /\ liveThreads[h].comments = <<>>
          /\ EntryIds = {threadIdMap[h]}
          /\ Entry(threadIdMap[h]).state = "closed"

\* the step in which the setThreadState call c shows the state and returns
SetStateReturns(c) ==
    c.op = "setState" /\ c.pc = "ui" /\ calls' = EndCall(c)

C12_Step ==
    \A c \in InFlight :
        /\ (SetStateSaves(c) /\ Has(indexFile.threads, c.threadId)) =>
              LET before == Entry(c.threadId)
                  after == ReadEntry(indexFile'.threads[c.threadId])
              IN  /\ after.state = c.state
                  /\ after.updatedAt = Clock
                  /\ after.commentCount = before.commentCount
                  /\ after.firstSeq = before.firstSeq
                  /\ after.lastSeq = before.lastSeq
                  /\ after.range = before.range
                  /\ after.createdAt = before.createdAt
                  /\ DOMAIN indexFile'.threads = DOMAIN indexFile.threads
                  /\ \A e \in DOMAIN indexFile.threads \ {c.threadId} :
                        indexFile'.threads[e] = indexFile.threads[e]
                  /\ indexFile'.lastSeq = indexFile.lastSeq
                  /\ logFile' = logFile
        /\ SetStateReturns(c) =>
              /\ indexFile.threads[c.threadId].state = c.state
              /\ liveThreads'[c.h].state = IF c.state = "closed" THEN "Resolved" ELSE "Unresolved"
              /\ liveThreads'[c.h].contextValue =
                    IF c.state = "closed" THEN "locore:resolved" ELSE "locore:unresolved"

\* C12: a successful setState(thread, s) on a thread with an entry sets the
\* entry's state to s and its updatedAt to now; it leaves the entry's
\* commentCount, firstSeq, lastSeq, range and createdAt, every other entry, the
\* global lastSeq and the log as they were; afterwards the live thread's
\* indicator and context tag correspond to s.
C12_SetStateUpdates == [][C12_Step]_vars

\* a thread with two comments, created at time 1, was closed at time 3
C12_Witness ==
    /\ Quiescent
    /\ \E h \in Handles :
          /\ Live(h) /\ liveThreads[h].contextValue = "locore:resolved"
          /\ Has(indexFile.threads, threadIdMap[h])
          /\ Entry(threadIdMap[h]).commentCount = 2
          /\ Entry(threadIdMap[h]).createdAt = 1
          /\ Entry(threadIdMap[h]).updatedAt = 3
          /\ Entry(threadIdMap[h]).state = "closed"

C13_Step ==
    /\ \A c \in InFlight :
          (UpsertSaves(c) /\ Has(indexFile.threads, c.threadId)
                          /\ indexFile.threads[c.threadId].state = "closed") =>
              indexFile'.threads[c.threadId].state = "closed"
    /\ \A id \in DOMAIN indexFile.threads :
          (Has(indexFile'.threads, id)
             /\ indexFile'.threads[id].state # indexFile.threads[id].state) =>
              \E c \in InFlight :
                  /\ SetStateSaves(c)
                  /\ c.threadId = id
                  /\ indexFile'.threads[id].state = c.state

\* C13: a successful upsert on a thread whose entry is closed leaves the entry
\* closed in the persisted index; in runs without overlapping calls the
\* persisted state of an entry changes only by a setState call on that thread.
C13_StateOnlyBySetState == [][C13_Step]_vars

\* a closed thread got a reply: its entry is still closed
C13_Witness ==
    /\ Quiescent
    /\ \E h \in Handles :
          /\ Live(h) /\ liveThreads[h].state = "Resolved"
          /\ liveThreads[h].contextValue = "locore:unresolved"
          /\ Len(liveThreads[h].comments) = 1
          /\ Has(indexFile.threads, threadIdMap[h])
          /\ Entry(threadIdMap[h]).state = "closed"
          /\ Entry(threadIdMap[h]).commentCount = 1
          /\ Entry(threadIdMap[h]).updatedAt > Entry(threadIdMap[h]).createdAt

\* the restored comment cmt shows the log row
Shows(cmt, row) ==
    cmt.body = row.body /\ cmt.author = row.author /\ cmt.timestamp = row.createdAt

\* positions of the run's output that carry threadId id
RestoredAs(run, id) == { k \in 1..Len(run.threads) : run.threads[k].threadId = id }

\* the rows of thread id among the first i rows, in file order
OwnRows(rows, i, id) == SelectSeq(SubSeq(rows, 1, i), LAMBDA r : r.threadId = id)

\* C14: after a successful upsert, a restoreAll run on the resulting stores
\* yields for the upsert's threadId a comment list that ends with the upserted
\* body and author and holds every earlier comment of the thread before it;
\* the comment appears under no other threadId.
C14_RoundTrip ==
    \A n \in 1..Len(restored) :
        LET run == restored[n]
            rows == run.logFile
        IN  \A i \in 1..Len(rows) :
                LET id == rows[i].threadId
                    own == OwnRows(rows, i, id)
                    isLast == \A j \in (i + 1)..Len(rows) : rows[j].threadId # id
                IN  /\ Cardinality(RestoredAs(run, id)) = 1
                    /\ \A k \in RestoredAs(run, id) :
                          LET cs == run.threads[k].thread.comments
                          IN  /\ Len(cs) >= Len(own)
                              /\ \A j \in 1..Len(own) : Shows(cs[j], own[j])
                              /\ isLast => Len(cs) = Len(own) /\ Shows(cs[Len(cs)], rows[i])
                    /\ \A k \in (1..Len(run.threads)) \ RestoredAs(run, id) :
                          \A j \in 1..Len(run.threads[k].thread.comments) :
                              ~Shows(run.threads[k].thread.comments[j], rows[i])

\* a thread restored right after its second comment shows both, in order
C14_Witness ==
    /\ Quiescent /\ Len(restored) = 1 /\ Len(logFile) = 2
    /\ restored[1].logFile = logFile /\ restored[1].indexFile = indexFile
    /\ \E h \in Handles :
          /\ Live(h) /\ threadIdMap[h] = logFile[2].threadId
          /\ Len(liveThreads[h].comments) = 2
          /\ liveThreads[h].comments[1].timestamp = 1
          /\ liveThreads[h].comments[2].timestamp = 2

C15_Step ==
    \A c \in InFlight : c.op = "restore" => indexFile' = indexFile /\ logFile' = logFile

\* what a run shows for threadId id: the thread state and the comment list
ShownFor(run, id) ==
    { <<run.threads[k].thread.state, run.threads[k].thread.comments>> : k \in RestoredAs(run, id) }

RestoredIds(run) == { run.threads[k].threadId : k \in 1..Len(run.threads) }

C15_SameOutput ==
    \A m, n \in 1..Len(restored) :
        (restored[m].indexFile = restored[n].indexFile
           /\ restored[m].logFile = restored[n].logFile) =>
            /\ RestoredIds(restored[m]) = RestoredIds(restored[n])
            /\ \A id \in RestoredIds(restored[m]) :
                  ShownFor(restored[m], id) = ShownFor(restored[n], id)

LoadedIndex(run) == readIndexJson(run.indexFile)

\* the stored location is an absolute URI or a workspace-relative path, and
\* the entry has a range
WellFormedEntry(t) == t.uri[1] \in {"abs", "rel"} /\ "range" \in DOMAIN t

\* the threadIds of the rows that the log of a run holds
LoggedIds(run) ==
    { run.logFile[i].threadId : i \in { j \in 1..Len(run.logFile) : KeepsLine(run.logFile[j]) } }

\* C16: restoreAll restores every threadId that is a key of index.threads and
\* whose stored location and range are well formed; a thread without a row in
\* the log is restored too, with an empty comment list.
C16_EveryEntryRestored ==
    \A n \in 1..Len(restored) :
        LET run == restored[n]
            threads == LoadedIndex(run).threads
        IN  \A id \in DOMAIN threads :
                WellFormedEntry(threads[id]) =>
                    /\ Cardinality(RestoredAs(run, id)) = 1
                    /\ id \notin LoggedIds(run) =>
                          \A k \in RestoredAs(run, id) : run.threads[k].thread.comments = <<>>

\* a run on an index of two well-formed entries and a log with rows of one only
C16_Witness ==
    /\ Len(restored) = 1
    /\ LET run == restored[1]
       IN  /\ DOMAIN LoadedIndex(run).threads = {1, 2}
           /\ \A id \in {1, 2} : WellFormedEntry(LoadedIndex(run).threads[id])
           /\ LoggedIds(run) = {1}
           /\ \E k \in RestoredAs(run, 2) : run.threads[k].thread.comments = <<>>
           /\ \E k \in RestoredAs(run, 1) : Len(run.threads[k].thread.comments) = 2

\* the rows of thread id that the log of a run holds, in file order
LoggedRows(run, id) ==
    SelectSeq(run.logFile, LAMBDA r : KeepsLine(r) /\ r.threadId = id)

\* cs shows the rows of own, each once, in an order p of ascending seq
ShowsBySeq(cs, own) ==
    /\ Len(cs) = Len(own)
    /\ \E p \in Permutations(1..Len(own)) :
          /\ \A j \in 1..Len(own) : Shows(cs[j], own[p[j]])
          /\ \A i, j \in 1..Len(own) :
                (i < j /\ "seq" \in DOMAIN own[p[i]] /\ "seq" \in DOMAIN own[p[j]]) =>
                    own[p[i]].seq <= own[p[j]].seq

\* C17: for every restored thread, the comment list that restoreAll produces
\* holds exactly the log rows with that threadId, by ascending seq whatever
\* their order in the file.
C17_CommentsBySeq ==
    \A n \in 1..Len(restored) :
        \A k \in 1..Len(restored[n].threads) :
            ShowsBySeq(restored[n].threads[k].thread.comments,
                       LoggedRows(restored[n], restored[n].threads[k].threadId))

\* a log whose row of seq 2 comes before the row of seq 1 of the same thread,
\* with a row of another thread: the thread shows "a" then "b"
C17_Witness ==
    /\ Len(restored) = 1
    /\ LET run == restored[1]
       IN  /\ Len(run.logFile) = 3
           /\ \E i, j \in 1..3 :
                 /\ i < j
                 /\ run.logFile[i] = StoreRow(1, 2, "b")
                 /\ run.logFile[j] = StoreRow(1, 1, "a")
           /\ \E i \in 1..3 : run.logFile[i] = StoreRow(2, 1, "c")
           /\ \E k \in RestoredAs(run, 1) :
                 LET cs == run.threads[k].thread.comments
                 IN  Len(cs) = 2 /\ cs[1].body = "a" /\ cs[2].body = "b"
           /\ \E k \in RestoredAs(run, 2) : Len(run.threads[k].thread.comments) = 1

\* the entries of the loaded index that cannot be restored
FailingIds(run) ==
    { id \in DOMAIN LoadedIndex(run).threads : ~WellFormedEntry(LoadedIndex(run).threads[id]) }

\* C18: when restoring one thread fails, restoreAll skips only that thread,
\* does not fail as a whole, and still restores every other thread of the
\* index, before or after the failing one in iteration order.
C18_FailureSkipsOneThread ==
    /\ Quiescent => Len(restored) = opCount
    /\ \A n \in 1..Len(restored) :
          LET run == restored[n]
          IN  \A bad \in FailingIds(run) :
                  /\ RestoredAs(run, bad) = {}
                  /\ \A id \in DOMAIN LoadedIndex(run).threads \ FailingIds(run) :
                        Cardinality(RestoredAs(run, id)) = 1

\* the second of three entries has a location that does not parse: the run
\* ends with the first and the third restored
C18_Witness ==
    /\ Quiescent
    /\ Len(restored) = 1
    /\ LET run == restored[1]
       IN  /\ FailingIds(run) = {2}
           /\ "range" \in DOMAIN LoadedIndex(run).threads[2]
           /\ RestoredIds(run) = {1, 3}
           /\ \A h \in Handles : Live(h) <=> threadIdMap[h] \in {1, 3}

\* the line is an object with a threadId that is a string
HasStringThreadId(line) == "threadId" \in DOMAIN line /\ IsString(line.threadId)

\* the calls of restoreExistingThreads that hold what readAll returned
ReadAllReturned == { c \in InFlight : c.op = "restore" /\ c.pc = "threads" }

\* one well-formed row, one malformed line, one more well-formed row
C19_Example == <<StoreRow(1, 1, "a"), [text |-> "{broken json}"], StoreRow(1, 2, "b")>>

\* C19: readAll returns exactly the lines of the log file that parse as an
\* object with a string threadId, in file order, and skips every other line
\* without raising; a well-formed row, a malformed line and one more
\* well-formed row yield the two rows in that order, a missing log file yields
\* the empty sequence.
C19_ReadAllSkipsBadLines ==
    \A c \in ReadAllReturned :
        /\ c.jsonlRows = SelectSeq(logFile, HasStringThreadId)
        /\ logFile = C19_Example => c.jsonlRows = <<StoreRow(1, 1, "a"), StoreRow(1, 2, "b")>>
        /\ logFile = MissingLog => c.jsonlRows = <<>>

\* readAll has returned the two rows of the example
C19_Witness ==
    /\ logFile = C19_Example
    /\ \E c \in ReadAllReturned : Len(c.jsonlRows) = 2 /\ c.jsonlRows[2].body = "b"

\* the calls of restoreExistingThreads that hold what the index load returned
IndexLoadReturned == { c \in InFlight : c.op = "restore" /\ c.pc = "readLog" }

\* the file holds a document whose version tag is 1
HasVersionOne(file) == "version" \in DOMAIN file /\ file.version = 1

\* C20: index load never raises and returns the fresh default document when
\* the file is missing, not parsable, not an object, an object without version,
\* or an object whose version tag is other than 1.
C20_DefaultUnlessVersionOne ==
    \A c \in IndexLoadReturned : ~HasVersionOne(indexFile) => c.indexData = DefaultIndex

\* the part of C20 that the code keeps: every case but the unrecognized version
C20_DefaultUnlessVersioned ==
    \A c \in IndexLoadReturned : "version" \notin DOMAIN indexFile => c.indexData = DefaultIndex

\* the call c saves the index and goes on as c1, which holds the document saved
SavesAs(c, c1) == c.pc = "save" /\ c1.pc = "ui" /\ calls' = Advance(c, c1)

C21_Step ==
    \A c \in InFlight : \A c1 \in BagToSet(calls') :
        SavesAs(c, c1) => readIndexJson(indexFile') = c1.indexData

\* C21: saving a well-formed index document and then loading it returns a
\* document equal to the saved one (version, lastSeq, threads, byUri); the
\* save replaces whatever was stored before.
C21_SaveLoadRoundTrip == [][C21_Step]_vars

\* a setThreadState call has saved a document in which an entry has no
\* firstSeq and the entry of a commented thread has left its absolute key
C21_Witness ==
    \E c \in InFlight :
        /\ c.op = "setState" /\ c.pc = "ui"
        /\ readIndexJson(indexFile) = c.indexData
        /\ indexFile # c.indexData
        /\ \E id \in EntryIds : Entry(id).commentCount = 1
        /\ \E id \in EntryIds : "firstSeq" \notin DOMAIN indexFile.threads[id]
        /\ \A k \in DOMAIN indexFile.byUri : k[1] = "rel"

\* the log file exists and the index file holds an object with a version key
StoresEnsured == logFile # MissingLog /\ "version" \in DOMAIN indexFile

C22_Step ==
    \A c \in InFlight : c.op = "bootstrap" =>
        /\ logFile # MissingLog => logFile' = logFile
        /\ HasVersionOne(indexFile) => indexFile' = indexFile
        /\ calls' = EndCall(c) => StoresEnsured'
        /\ StoresEnsured => indexFile' = indexFile /\ logFile' = logFile

\* C22: the store bootstrap is idempotent: it leaves the contents of a log
\* file that exists and an index file that holds a well-formed versioned
\* document unchanged, and it leaves the stores such that another bootstrap
\* changes nothing.
C22_BootstrapIdempotent == [][C22_Step]_vars

\* a bootstrap has run on an index of two threads and a log of three lines,
\* one of them not a row
C22_Witness ==
    /\ Quiescent /\ opCount = 0 /\ lastResult = Resolved("none")
    /\ HasVersionOne(indexFile) /\ DOMAIN indexFile.threads = {1, 2}
    /\ logFile # MissingLog /\ Len(logFile) = 3
    /\ \E i \in 1..3 : ~KeepsLine(logFile[i])
    /\ \E i \in 1..3 : KeepsLine(logFile[i])

(* ------------------ failures, crashes and the stores ------------------- *)

\* the index and the rows a reader finds on disk
DiskIndex == readIndexJson(indexFile)

DiskRows == readAllJsonl(logFile)

Max(S) == CHOOSE x \in S : \A y \in S : y <= x

\* the greatest seq of the log, 0 when it has no row
MaxSeqOnDisk == IF DiskRows = <<>> THEN 0 ELSE Max({ DiskRows[i].seq : i \in 1..Len(DiskRows) })

RowCountOnDisk(id) == Cardinality({ i \in 1..Len(DiskRows) : DiskRows[i].threadId = id })

\* C23: in every on-disk state, also the one a crash or a failed index save
\* leaves between the log append and the index save of an upsert, the index is
\* not ahead of the log: every entry's commentCount is at most the number of log
\* rows of its threadId, and the global lastSeq is at most the greatest seq of
\* the log (0 for an empty log).
C23_IndexNotAheadOfLog ==
    /\ \A id \in DOMAIN DiskIndex.threads :
            DiskIndex.threads[id].commentCount <= RowCountOnDisk(id)
    /\ DiskIndex.lastSeq <= MaxSeqOnDisk

\* a crash came between the append and the save of an upsert: the restoration
\* that followed found the log one row ahead of the index
C23_Witness ==
    /\ Quiescent
    /\ lastResult = Resolved("none")
    /\ restored # <<>>
    /\ \E id \in DOMAIN DiskIndex.threads :
            /\ DiskIndex.threads[id].commentCount = 1
            /\ RowCountOnDisk(id) = 2
    /\ DiskIndex.lastSeq < MaxSeqOnDisk

IsPrefix(s1, s2) == Len(s1) <= Len(s2) /\ SubSeq(s2, 1, Len(s1)) = s1

\* the step is the append of an upsert in flight
UpsertAppends == \E c \in InFlight :
                    /\ c.op = "upsert" /\ c.pc = "append"
                    /\ \E c1 \in BagToSet(calls') : c1.pc = "save" /\ calls' = Advance(c, c1)

C24_Step ==
    LET rows == DiskRows
        rows1 == readAllJsonl(logFile')
    IN  /\ IsPrefix(rows, rows1)
        /\ Len(rows1) = Len(rows) + (IF UpsertAppends THEN 1 ELSE 0)
        /\ \A c \in InFlight :
                c.op = "upsert" /\ c.pc = "ui" /\ calls' = EndCall(c)
                => Cardinality({ i \in 1..Len(rows1) : /\ rows1[i].threadId = c.threadId
                                                        /\ rows1[i].seq = c.nextSeq
                                                        /\ rows1[i].createdAt = c.nowIso
                                                        /\ rows1[i].body = c.text }) = 1

\* C24: the log is append-only: over every step the well-formed rows before
\* are a prefix of the rows after; the append of an upsert adds exactly one row,
\* which is in the log once when the upsert returns; every other step (a state
\* change, a restoration, the resolution of an identity, the bootstrap of the
\* stores, a failed call) adds none.
C24_AppendOnly == [][C24_Step]_vars

\* a state change and a second upsert ran on a log that had a row
C24_Witness ==
    /\ Quiescent
    /\ lastResult = Resolved("info")
    /\ Len(DiskRows) = 2
    /\ \E id \in DOMAIN DiskIndex.threads : DiskIndex.threads[id].state = "closed"

\* the step is a call of upsertReview that found no workspace open: it has
\* started and returned at once, with the error message on screen
NoWorkspaceCall ==
    /\ opCount' = opCount + 1
    /\ Quiescent
    /\ calls' = calls
    /\ \E h \in Handles : Live(h)

C25_Step ==
    NoWorkspaceCall =>
        /\ lastResult' = Resolved("error")
        /\ indexFile' = indexFile
        /\ logFile' = logFile
        /\ threadIdMap' = threadIdMap
        /\ liveThreads' = liveThreads

\* C25: an upsert called with no workspace open shows an error message and
\* returns; it creates and modifies neither the index file nor the log file, and
\* leaves the session cache and the live thread as they were.
C25_NoWorkspaceNoChange == [][C25_Step]_vars

\* the call returned with the error shown, and the stores are still not there
C25_Witness ==
    /\ lastResult = Resolved("error")
    /\ opCount = 1
    /\ indexFile = MissingFile
    /\ logFile = MissingLog
    /\ \E h \in Handles : Live(h) /\ liveThreads[h].comments = <<>> /\ threadIdMap[h] = undefined

\* what the editor shows of the live thread h
Shown(thread) == [comments |-> thread.comments, state |-> thread.state,
                  contextValue |-> thread.contextValue]

\* the writes of the call c are on disk: the document it saved is the index
\* file, and the row of an upsert is in the log
Persisted(c) ==
    /\ DiskIndex = c.indexData
    /\ c.op = "upsert" =>
            \E i \in 1..Len(DiskRows) : /\ DiskRows[i].threadId = c.threadId
                                        /\ DiskRows[i].seq = c.nextSeq
                                        /\ DiskRows[i].body = c.text

\* the step ends a call because its log append or its index save failed
FailsWith(c) ==
    /\ c.op \in {"upsert", "setState"}
    /\ calls' = EndCall(c)
    /\ lastResult' \in {Rejected("appendJsonl"), Rejected("writeIndexJson")}

C26_Step ==
    /\ \A c \in InFlight : FailsWith(c) => liveThreads' = liveThreads
    /\ \A h \in Handles :
            /\ Live(h)
            /\ liveThreads'[h] # NoThread
            /\ Shown(liveThreads'[h]) # Shown(liveThreads[h])
            => \E c \in InFlight : c.h = h /\ c.pc = "ui" /\ Persisted(c)

\* C26: when the log append or the index save of an upsert fails, or the index
\* save of a state change, the comments, the resolved indicator and the context
\* tag of the live thread are left as they were; from the start of a call on,
\* what a live thread shows changes only in the step of a call whose writes are
\* on disk.
C26_LiveThreadAfterPersistence == [][C26_Step]_vars

\* the index save of the first upsert failed after its row was appended: the
\* live thread shows no comment and has no context tag
C26_Witness ==
    /\ Quiescent
    /\ opCount = 1
    /\ lastResult = Rejected("writeIndexJson")
    /\ Len(DiskRows) = 1
    /\ DiskIndex.threads = <<>>
    /\ \E h \in Handles : /\ Live(h)
                          /\ threadIdMap[h] = DiskRows[1].threadId
                          /\ Shown(liveThreads[h]) = Shown(NewLiveThread(liveThreads[h].uri, liveThreads[h].range))

\* the step ends the call c
Ends(c) == calls' = EndCall(c)

C27_Step ==
    \A c \in InFlight :
        /\ c.op = "upsert" /\ c.readFailed
            => /\ logFile' = logFile
               /\ indexFile' = indexFile
               /\ Ends(c) => lastResult'.settled = "rejected"
        /\ c.op = "upsert" /\ Ends(c) /\ c.pc \in {"append", "save"}
            => /\ lastResult'.settled = "rejected"
               /\ lastResult'.cause \in {"appendJsonl", "writeIndexJson", "TypeError"}
               /\ indexFile' = indexFile
               /\ logFile' = logFile

\* C27: an upsert whose index read, log append or index save fails ends
\* rejected with the cause; it does not report success and runs none of the
\* later steps: after a failed index read no row is appended and no index is
\* saved.
C27_IoFailureEndsCall == [][C27_Step]_vars

(* --------------------- calls whose I/O waits overlap ------------------- *)

\* C28: a thread entry is never deleted: over every step of upsert and state
\* change calls, overlapping ones included, every threadId that is a key of
\* threads in the persisted index is still a key after the step.
C28_EntryNeverDeleted ==
    [][DOMAIN DiskIndex.threads \subseteq DOMAIN readIndexJson(indexFile').threads]_vars

\* C29: the global cursor is monotonic: over every step of upsert and state
\* change calls, overlapping ones included, lastSeq of the persisted index does
\* not decrease.
C29_LastSeqMonotonic ==
    [][DiskIndex.lastSeq <= readIndexJson(indexFile').lastSeq]_vars

\* two upserts are in flight and neither has saved the index: both loaded it
\* before either save
BothLoaded(c, d) ==
    /\ c # d
    /\ c.op = "upsert" /\ d.op = "upsert"
    /\ c.pc \in {"resolve", "append", "save"}
    /\ d.pc \in {"resolve", "append", "save"}

HasRowOf(c) == \E i \in 1..Len(logFile) : /\ logFile[i].threadId = c.threadId
                                          /\ logFile[i].seq = c.nextSeq
                                          /\ logFile[i].createdAt = c.nowIso

C30_Step ==
    \A c, d \in InFlight :
        BothLoaded(c, d) =>
            /\ Ends(c) => lastResult'.settled = "resolved"
            /\ c.pc = "save" /\ d.pc = "save" /\ c.indexData.lastSeq = d.indexData.lastSeq
                    => HasRowOf(c) /\ HasRowOf(d) /\ c.nextSeq = d.nextSeq
            /\ \A c1 \in BagToSet(calls') :
                    SavesAs(c, c1) => readIndexJson(indexFile') = c1.indexData

\* C30: when two upserts overlap so that both load the index before either
\* saves it, neither ends in an error, both rows are in the log with the same
\* seq, and each save leaves exactly the saved document as the persisted index,
\* so that the later save decides it; on the same live thread or on different
\* ones, with or without an identity.
C30_OverlappingUpserts == [][C30_Step]_vars

\* the live threads of the calls c and d are at the same file and range
SamePlace(c, d) ==
    /\ liveThreads[c.h].uri = liveThreads[d.h].uri
    /\ liveThreads[c.h].range = liveThreads[d.h].range

\* no entry of the persisted index is at the place of the live thread h
NothingStoredAt(h) ==
    \A id \in DOMAIN DiskIndex.threads :
        \/ FileOfKey(DiskIndex.threads[id].uri) # liveThreads[h].uri
        \/ DiskIndex.threads[id].range # liveThreads[h].range

\* C31: when upserts or state changes on live threads at one (file, range)
\* that has no identity yet overlap, one threadId at most is minted for that
\* place: the calls that have resolved hold the same threadId.
C31_OneIdentityPerRange ==
    \A c, d \in InFlight :
        /\ c.threadId # undefined /\ d.threadId # undefined
        /\ SamePlace(c, d)
        /\ NothingStoredAt(c.h)
        => c.threadId = d.threadId

(* ----------------------- ranges that have moved ------------------------ *)

\* the step resolves the identity of the upsert c, which goes on as c1
ResolvesAs(c, c1) ==
    /\ c.op = "upsert" /\ c.pc = "resolve"
    /\ c1.pc = "append"
    /\ calls' = Advance(c, c1)

\* the live thread of the call c has the entry id, stored with another range
\* than the thread has now
ShiftedFrom(c, id) ==
    /\ threadIdMap[c.h] = id
    /\ Has(c.indexData.threads, id)
    /\ c.indexData.threads[id].range # c.range

C32_Step ==
    \A c \in InFlight : \A c1 \in BagToSet(calls') :
        ResolvesAs(c, c1) =>
            \A id \in DOMAIN c.indexData.threads :
                ShiftedFrom(c, id)
                => /\ c1.threadId # id
                   /\ ~Has(c.indexData.threads, c1.threadId)
                   /\ Has(c1.indexData.threads, c1.threadId)
                   /\ c1.indexData.threads[c1.threadId].range = c.range
                   /\ c1.indexData.threads[id] = c.indexData.threads[id]

\* C32: an upsert on a live thread whose range differs from the range stored
\* in its entry creates a new entry, with the current range and a new
\* threadId, and leaves the old entry as it is, also when the live thread is in
\* the session cache.
C32_ShiftedRangeNewThread == [][C32_Step]_vars

(* ---------------------- after a crash, after a failure ------------------ *)

\* the step appends a row to the log
AppendedRow == logFile' # logFile /\ Len(logFile') = Len(logFile) + 1

C33_Step ==
    AppendedRow /\ restored # <<>> =>
        \A i \in 1..Len(DiskRows) : DiskRows[i].seq # logFile'[Len(logFile')].seq

\* C33: the seq values of the log stay unique across a crash and restart: when
\* the host has stopped between the log append and the index save of an upsert,
\* every row appended after the restart (a restoration has run) has a seq that
\* no row of the log has.
C33_SeqUniqueAcrossCrash == [][C33_Step]_vars

\* the comments a restoration would show for threadId id from the stores as
\* they are after the step: those of its rows when the index has the entry,
\* none when it has not
WouldRestore(id) ==
    IF Has(readIndexJson(indexFile').threads, id)
    THEN MapComments(RowsByThread(readAllJsonl(logFile'), id))
    ELSE <<>>

C34_Step ==
    \A c \in InFlight :
        c.op = "upsert" /\ Ends(c) /\ lastResult'.settled = "rejected"
        => liveThreads'[c.h].comments = WouldRestore(c.threadId)

\* C34: after an upsert that has failed, the comments the live thread holds
\* are the comments a restoration would produce for that thread from the
\* stores as the failure left them.
C34_NoDivergenceOnFailure == [][C34_Step]_vars

\* every state change call has ended: the calls in flight, if any, are upserts
NoStateChangeInFlight == \A c \in InFlight : c.op = "upsert"

\* the entry of id is persisted as closed and no state change is in flight:
\* the state change that closed it has completed
ClosedAndSettled(id) ==
    /\ NoStateChangeInFlight
    /\ Has(DiskIndex.threads, id)
    /\ ReadEntry(DiskIndex.threads[id]).state = "closed"

C35_Step ==
    \A id \in DOMAIN DiskIndex.threads :
        ClosedAndSettled(id)
        => /\ Has(readIndexJson(indexFile').threads, id)
           /\ ReadEntry(readIndexJson(indexFile').threads[id]).state = "closed"

\* C35: a completed state change is durable under interleaving: once a state
\* change to closed has completed, the entry stays persisted as closed over
\* every step that is not a later state change, the index save of an upsert
\* that loaded the index before the state change saved it included.
C35_StateChangeDurable == [][C35_Step]_vars

\* a call of upsertReview or setThreadState ends
CallEnds(c) == c.op \in {"upsert", "setState"} /\ Ends(c)

C36_Step ==
    \A c \in InFlight :
        CallEnds(c)
        => /\ lastResult'.settled = "resolved"
           /\ Has(readIndexJson(indexFile').threads, threadIdMap'[c.h])

\* C36: when every file operation succeeds, every call of upsertReview and
\* setThreadState completes successfully and leaves an entry for its thread in
\* the index, also when the index was replaced by the default document while
\* the thread is in the session cache; no call appends a row and then fails.
C36_LostIndexDoesNotBlock == [][C36_Step]_vars

\* C37: cache and index agree: whenever no call is in flight, every threadId
\* the session cache holds for a live thread is a key of threads in the
\* persisted index, also after a call that failed at the log append or at the
\* index save.
C37_CacheWithinIndex ==
    Quiescent =>
        \A h \in Handles :
            Live(h) /\ threadIdMap[h] # undefined => Has(DiskIndex.threads, threadIdMap[h])

\* the context tag and the indicator a thread shows for a persisted state
TagOf(state) == IF state = "closed" THEN "locore:resolved" ELSE "locore:unresolved"

IndicatorOf(state) == IF state = "closed" THEN "Resolved" ELSE "Unresolved"

\* C38: after every completed restoration, state change or upsert of a run
\* without overlapping calls, the context tag and the resolved/unresolved
\* indicator of a live thread agree with the persisted state of its entry.
C38_TagAgreesWithState ==
    Quiescent =>
        \A h \in Handles :
            Live(h) /\ threadIdMap[h] # undefined /\ Has(DiskIndex.threads, threadIdMap[h])
            => /\ liveThreads[h].contextValue = TagOf(Entry(threadIdMap[h]).state)
               /\ liveThreads[h].state = IndicatorOf(Entry(threadIdMap[h]).state)

\* the keys of threads in the index a run read
IndexKeysOf(run) == DOMAIN readIndexJson(run.indexFile).threads

\* the rows of the run's log whose threadId is no key of its index
OrphanRows(run) ==
    SelectSeq(readAllJsonl(run.logFile), LAMBDA r : r.threadId \notin IndexKeysOf(run))

\* C39: a restoration creates live threads only for threadIds that are keys of
\* threads in the index: a log row whose threadId is not in the index produces
\* no live thread and is shown in no restored comment list.
C39_OrphanRowsNotRestored ==
    \A n \in 1..Len(restored) :
        LET run == restored[n]
            orphans == OrphanRows(run)
        IN  /\ \A k \in 1..Len(run.threads) : run.threads[k].threadId \in IndexKeysOf(run)
            /\ \A i \in 1..Len(orphans) :
                  /\ RestoredAs(run, orphans[i].threadId) = {}
                  /\ \A k \in 1..Len(run.threads) :
                        \A j \in 1..Len(run.threads[k].thread.comments) :
                            ~Shows(run.threads[k].thread.comments[j], orphans[i])

\* a run restored a thread without rows from stores whose log has an orphan row
C39_Witness ==
    \E n \in 1..Len(restored) :
        /\ OrphanRows(restored[n]) # <<>>
        /\ \E k \in 1..Len(restored[n].threads) : restored[n].threads[k].thread.comments = <<>>
        /\ \E h \in Handles : Live(h) /\ liveThreads[h].comments = <<>>

\* the last restoration of the session
LastRun == restored[Len(restored)]

\* live thread h was created by the last restoration: after a reload the
\* handles are free, so the k-th restored thread is live thread k
IsRestored(h) ==
    /\ restored # <<>>
    /\ h <= Len(LastRun.threads)
    /\ Live(h)
    /\ liveThreads[h].collapsibleState = "Collapsed"

\* the threadId live thread h was restored from
RestoredFrom(h) == LastRun.threads[h].threadId

\* the call c resolves its threadId and goes on as c1
Resolves(c, c1) == c.pc = "resolve" /\ c1.pc # "resolve" /\ calls' = Advance(c, c1)

C40_Step ==
    \A c \in InFlight :
        (c.op \in {"upsert", "setState"} /\ IsRestored(c.h)) =>
            LET id == RestoredFrom(c.h)
            IN  /\ (c.pc = "resolve" /\ calls' # calls) =>
                      \E c1 \in BagToSet(calls') :
                          /\ Resolves(c, c1)
                          /\ c1.threadId = id
                          /\ DOMAIN c1.indexData.threads = DOMAIN c.indexData.threads
                          /\ uuidCount' = uuidCount
                /\ UpsertSaves(c) =>
                      /\ DOMAIN indexFile'.threads = DOMAIN indexFile.threads
                      /\ indexFile'.threads[id].commentCount = indexFile.threads[id].commentCount + 1
                /\ SetStateSaves(c) =>
                      /\ DOMAIN indexFile'.threads = DOMAIN indexFile.threads
                      /\ indexFile'.threads[id].state = c.state
                /\ Ends(c) => lastResult'.settled = "resolved" /\ threadIdMap'[c.h] = id

\* C40: a restored thread keeps its identity: an upsert or a state change on a
\* restored live thread resolves to the threadId the thread was restored from,
\* creates no entry and (the upsert) adds 1 to that entry's commentCount, also
\* when the range of the live thread is no longer the stored range.
C40_RestoredKeepsIdentity == [][C40_Step]_vars

\* a restored thread whose range had moved got a reply: it shows the restored
\* comment and the reply, and the one entry counts both under its stored range
C40_Witness ==
    /\ Quiescent
    /\ \E h \in Handles :
          /\ IsRestored(h)
          /\ Len(liveThreads[h].comments) = 2
          /\ DOMAIN indexFile.threads = {RestoredFrom(h)}
          /\ Entry(RestoredFrom(h)).commentCount = 2
          /\ Entry(RestoredFrom(h)).range # liveThreads[h].range

====
